---------------------------- MODULE Spec2Model ----------------------------
(***************************************************************************)
(* Pronunciation scoring of the Gita Pronunciation API.                    *)
(*                                                                         *)
(* Both services score a (target, spoken) pair with                        *)
(* difflib.SequenceMatcher: src/backend/main.py (evaluate) hands the raw   *)
(* request strings to SequenceMatcher(None, a, b); src/main.py             *)
(* (evaluate_pronunciation) strips and lower-cases them first.  The        *)
(* matcher is built with its defaults, so isjunk is None and autojunk is   *)
(* on.  The model follows the matcher step by step: the b2j index with     *)
(* its popular-element purge, the longest-match sweep and its extension    *)
(* loops, the work list of windows, the sort and the collapse of adjacent  *)
(* blocks, the opcodes, the ratio and the rounded score.                   *)
(*                                                                         *)
(* A text is a sequence of one-character strings.  Offsets are Python's:   *)
(* 0-based, spans half-open.                                               *)
(***************************************************************************)
EXTENDS Integers, Naturals, Sequences, FiniteSets, TLC

VARIABLES pc, handler, request, a, b, windows, matching_blocks, opcodes,
          score, diffs, differences

vars == <<pc, handler, request, a, b, windows, matching_blocks, opcodes,
          score, diffs, differences>>

\* Longest text of the requests enumerated for the backend service.
MaxLen == 3

\* Longest raw text of the requests enumerated for the main service.
MaxRaw == 4

\* difflib's autojunk: the purge of popular elements starts at len(b) >= 200.
AutoJunkMin == 200

-----------------------------------------------------------------------------
(* Texts *)

\* Units of the requests sent to the backend service (used as they come).
Units == {"a", "b", "c"}

\* Units of the requests sent to the main service (stripped, lower-cased).
RawUnits == {"A", " "}

TextsUpTo(U, n) == UNION {[1..m -> U] : m \in 0..n}

Rep(u, n) == [k \in 1..n |-> u]

\* Requests long enough for the matcher's autojunk purge to act.
LongRequests ==
    { [target |-> <<"b">> \o Rep("a", AutoJunkMin), spoken |-> Rep("a", AutoJunkMin)],
      [target |-> Rep("a", AutoJunkMin), spoken |-> Rep("a", AutoJunkMin)],
      [target |-> Rep("a", AutoJunkMin) \o <<"c", "b">>,
       spoken |-> Rep("a", AutoJunkMin) \o <<"c">>],
      [target |-> Rep("a", AutoJunkMin) \o <<"c">>,
       spoken |-> Rep("a", AutoJunkMin) \o <<"c", "b">>] }

\* expected="karma yoga", actual="karma yog"
KarmaYoga == <<"k", "a", "r", "m", "a", " ", "y", "o", "g", "a">>
KarmaYog == <<"k", "a", "r", "m", "a", " ", "y", "o", "g">>

\* The same pair as a client may send it: padded, with capitals.
RawKarmaYoga == <<" ", "K", "a", "r", "m", "a", " ", "Y", "o", "g", "a", " ">>
RawKarmaYog == <<"K", "A", "R", "M", "A", " ", "y", "o", "g", " ", " ">>

BackendRequests ==
    { [target |-> t, spoken |-> s] : t, s \in TextsUpTo(Units, MaxLen) }
    \cup LongRequests
    \cup { [target |-> KarmaYoga, spoken |-> KarmaYog] }

MainRequests ==
    { [target |-> t, spoken |-> s] : t, s \in TextsUpTo(RawUnits, MaxRaw) }
    \cup { [target |-> RawKarmaYoga, spoken |-> RawKarmaYog] }

At(s, i) == s[i + 1]

Slice(s, i1, i2) == SubSeq(s, i1 + 1, i2)

IsSpace(c) == c = " "

LowerChar(c) ==
    CASE c = "A" -> "a" [] c = "K" -> "k" [] c = "M" -> "m" [] c = "R" -> "r"
      [] c = "Y" -> "y" [] OTHER -> c

RECURSIVE LStrip(_)
LStrip(s) == IF s # <<>> /\ IsSpace(Head(s)) THEN LStrip(Tail(s)) ELSE s

RECURSIVE RStrip(_)
RStrip(s) ==
    IF s # <<>> /\ IsSpace(s[Len(s)]) THEN RStrip(SubSeq(s, 1, Len(s) - 1)) ELSE s

Strip(s) == RStrip(LStrip(s))

Lower(s) == [k \in 1..Len(s) |-> LowerChar(s[k])]

\* payload.target_text.strip().lower()
Normalize(s) == Lower(Strip(s))

-----------------------------------------------------------------------------
(* difflib.SequenceMatcher(None, a, b): isjunk is None, autojunk is on *)

Count(s, e) == Cardinality({k \in 1..Len(s) : s[k] = e})

Elements(s) == {s[k] : k \in 1..Len(s)}

\* __chain_b: bjunk stays empty, for isjunk is None.
BJunk(s) == {}

\* __chain_b: the elements purged from b2j as popular.
BPopular(s) ==
    LET n == Len(s)
        ntest == (n \div 100) + 1
    IN  IF n >= AutoJunkMin THEN {e \in Elements(s) : Count(s, e) > ntest} ELSE {}

\* SequenceMatcher.__init__ / set_seqs: the matcher's a, b and its b-side index.
Matcher(x, y) == [a |-> x, b |-> y, bjunk |-> BJunk(y), bpopular |-> BPopular(y)]

\* j in b2j.get(a[i], nothing): b[j] is a[i], and a[i] is still a key of b2j.
InB2J(m, i, j) ==
    /\ At(m.b, j) = At(m.a, i)
    /\ At(m.a, i) \notin m.bjunk
    /\ At(m.a, i) \notin m.bpopular

Min(x, y) == IF x < y THEN x ELSE y

\* newj2len[j] after the inner loop of find_longest_match has run for i (0 when
\* j is no key of it): k = j2len.get(j-1, 0) + 1 chains back through the rows
\* of the sweep, one step per position (i-d, j-d) that is in b2j and inside
\* the window, so k is the length of that run ending at (i, j).
J2Len(m, w, i, j) ==
    LET lim == Min(i - w.alo, j - w.blo) + 1
    IN  CHOOSE k \in 0..lim :
            /\ \A d \in 0..(k - 1) : InB2J(m, i - d, j - d)
            /\ k = lim \/ ~InB2J(m, i - k, j - k)

\* The positions (i, j) the two loops of find_longest_match visit: i over
\* range(alo, ahi), j over the entries of b2j[a[i]] inside [blo, bhi).
Visited(m, w) ==
    {c \in (w.alo..(w.ahi - 1)) \X (w.blo..(w.bhi - 1)) : InB2J(m, c[1], c[2])}

\* The order the loops visit the positions in: i ascending, then j ascending.
VisitedBefore(c, d) == c[1] < d[1] \/ (c[1] = d[1] /\ c[2] < d[2])

\* The positions with their k: (i, j, newj2len[j]).
Runs(m, w) == {<<c[1], c[2], J2Len(m, w, c[1], c[2])>> : c \in Visited(m, w)}

\* BestOf with the test written `if k >= bestsize`: the last visited position
\* with the largest k wins.
BestOfLast(w, runs) ==
    IF runs = {}
    THEN [besti |-> w.alo, bestj |-> w.blo, bestsize |-> 0]
    ELSE LET r == CHOOSE r \in runs :
                    \A q \in runs :
                        \/ q[3] < r[3]
                        \/ q[3] = r[3] /\ (q = r \/ VisitedBefore(q, r))
         IN  [besti |-> r[1] - r[3] + 1, bestj |-> r[2] - r[3] + 1,
              bestsize |-> r[3]]

\* (besti, bestj, bestsize) when the loops end.  The best is replaced only
\* `if k > bestsize`, so it is the first visited position whose k is the
\* largest of all; with no position visited it stays (alo, blo, 0).
BestOf(w, runs) ==
    IF runs = {}
    THEN [besti |-> w.alo, bestj |-> w.blo, bestsize |-> 0]
    ELSE LET r == CHOOSE r \in runs :
                    \A q \in runs :
                        \/ q[3] < r[3]
                        \/ q[3] = r[3] /\ (q = r \/ VisitedBefore(r, q))
         IN  [besti |-> r[1] - r[3] + 1, bestj |-> r[2] - r[3] + 1,
              bestsize |-> r[3]]

Sweep(m, w) == BestOf(w, Runs(m, w))

\* One more turn of a backward extension loop, e elements before the block:
\* junk = FALSE is the first loop (not isbjunk), junk = TRUE the second.
BackStep(m, best, e, junk) ==
    /\ (At(m.b, best.bestj - e) \in m.bjunk) = junk
    /\ At(m.a, best.besti - e) = At(m.b, best.bestj - e)

\* while besti > alo and bestj > blo and ... : the loop runs as long as every
\* turn's test passes, d turns in all.
BackTurns(m, best, lim, junk) ==
    CHOOSE n \in 0..lim :
        /\ \A e \in 1..n : BackStep(m, best, e, junk)
        /\ n = lim \/ ~BackStep(m, best, n + 1, junk)

\* besti, bestj, bestsize = besti-1, bestj-1, bestsize+1, d times
MovedBack(best, d) ==
    [besti |-> best.besti - d, bestj |-> best.bestj - d,
     bestsize |-> best.bestsize + d]

ExtendBack(m, w, best, junk) ==
    MovedBack(best,
              BackTurns(m, best, Min(best.besti - w.alo, best.bestj - w.blo), junk))

\* One more turn of a forward extension loop, e elements past the block start.
FwdStep(m, best, e, junk) ==
    /\ (At(m.b, best.bestj + e) \in m.bjunk) = junk
    /\ At(m.a, best.besti + e) = At(m.b, best.bestj + e)

\* while besti+bestsize < ahi and bestj+bestsize < bhi and ... : bestsize += 1
FwdSize(m, best, lim, junk) ==
    CHOOSE n \in best.bestsize..lim :
        /\ \A e \in best.bestsize..(n - 1) : FwdStep(m, best, e, junk)
        /\ n = lim \/ ~FwdStep(m, best, n, junk)

ExtendFwd(m, w, best, junk) ==
    [best EXCEPT !.bestsize =
        FwdSize(m, best, Min(w.ahi - best.besti, w.bhi - best.bestj), junk)]

\* find_longest_match(alo, ahi, blo, bhi) -> Match(besti, bestj, bestsize)
\* Match(besti, bestj, bestsize)
Match(best) == <<best.besti, best.bestj, best.bestsize>>

\* The first pair of extension loops, over elements that are not junk.
ExtendPlain(m, w, best) == ExtendFwd(m, w, ExtendBack(m, w, best, FALSE), FALSE)

\* The second pair of extension loops, over junk elements.
ExtendJunk(m, w, best) == ExtendFwd(m, w, ExtendBack(m, w, best, TRUE), TRUE)

FindLongestMatch(m, w) == Match(ExtendJunk(m, w, ExtendPlain(m, w, Sweep(m, w))))

Window(alo, ahi, blo, bhi) == [alo |-> alo, ahi |-> ahi, blo |-> blo, bhi |-> bhi]

\* The windows get_matching_blocks queues after finding the block x in the
\* window w: the one left of x and the one right of x, where both sides of it
\* are non-empty.
Remainders(w, x) ==
    (IF w.alo < x[1] /\ w.blo < x[2]
     THEN <<Window(w.alo, x[1], w.blo, x[2])>> ELSE <<>>)
    \o (IF x[1] + x[3] < w.ahi /\ x[2] + x[3] < w.bhi
        THEN <<Window(x[1] + x[3], w.ahi, x[2] + x[3], w.bhi)>> ELSE <<>>)

\* The work list of get_matching_blocks: queue.pop() takes the last window w,
\* x is the block found in it; `if k:` keeps x and queues the remainders.
\* calls records every window searched with the block found in it.
RECURSIVE Drain(_, _, _, _)
Searched(m, w, rest, blocks, calls, x) ==
    IF x[3] # 0
    THEN Drain(m, rest \o Remainders(w, x), Append(blocks, x),
               Append(calls, [window |-> w, match |-> x]))
    ELSE Drain(m, rest, blocks, Append(calls, [window |-> w, match |-> x]))

Drain(m, queue, blocks, calls) ==
    IF queue = <<>> THEN [blocks |-> blocks, calls |-> calls]
    ELSE Searched(m, queue[Len(queue)], SubSeq(queue, 1, Len(queue) - 1),
                  blocks, calls, FindLongestMatch(m, queue[Len(queue)]))

\* Tuple order of (i, j, k), as list.sort() compares the blocks.
TupleLess(x, y) ==
    \/ x[1] < y[1]
    \/ x[1] = y[1] /\ x[2] < y[2]
    \/ x[1] = y[1] /\ x[2] = y[2] /\ x[3] < y[3]

RECURSIVE InsertSorted(_, _)
InsertSorted(x, sorted) ==
    IF sorted = <<>> THEN <<x>>
    ELSE IF TupleLess(x, Head(sorted)) THEN <<x>> \o sorted
    ELSE <<Head(sorted)>> \o InsertSorted(x, Tail(sorted))

\* matching_blocks.sort()
RECURSIVE SortBlocks(_)
SortBlocks(blocks) ==
    IF blocks = <<>> THEN <<>>
    ELSE InsertSorted(Head(blocks), SortBlocks(Tail(blocks)))

\* The collapse of adjacent blocks: (i1, j1, k1) is the block being grown.
RECURSIVE Collapse(_, _, _)
Collapse(blocks, cur, non_adjacent) ==
    IF blocks = <<>>
    THEN IF cur[3] # 0 THEN Append(non_adjacent, cur) ELSE non_adjacent
    ELSE LET x == Head(blocks)
         IN  IF cur[1] + cur[3] = x[1] /\ cur[2] + cur[3] = x[2]
             THEN Collapse(Tail(blocks), <<cur[1], cur[2], cur[3] + x[3]>>,
                           non_adjacent)
             ELSE Collapse(Tail(blocks), x,
                           IF cur[3] # 0 THEN Append(non_adjacent, cur)
                           ELSE non_adjacent)

\* queue = [(0, la, 0, lb)] and the loop that drains it.
Search(m) == Drain(m, <<Window(0, Len(m.a), 0, Len(m.b))>>, <<>>, <<>>)

\* Every find_longest_match call of get_matching_blocks, in call order.
SearchCalls(m) == Search(m).calls

\* GetMatchingBlocks without the sentinel appended.
GetMatchingBlocksNoSentinel(m) ==
    Collapse(SortBlocks(Search(m).blocks), <<0, 0, 0>>, <<>>)

\* get_matching_blocks(): the blocks found, sorted and collapsed, and the
\* sentinel (la, lb, 0).
GetMatchingBlocks(m) ==
    Append(Collapse(SortBlocks(Search(m).blocks), <<0, 0, 0>>, <<>>),
           <<Len(m.a), Len(m.b), 0>>)

\* GapTag with the first test written `if i < ai or j < bj`.
GapTagOr(i, ai, j, bj) == IF i < ai \/ j < bj THEN "replace" ELSE ""

\* The tag get_opcodes gives the gap from (i, j) to the next block (ai, bj);
\* "" when there is no gap.
GapTag(i, ai, j, bj) ==
    IF i < ai /\ j < bj THEN "replace"
    ELSE IF i < ai THEN "delete"
    ELSE IF j < bj THEN "insert"
    ELSE ""

Opcode(tag, i1, i2, j1, j2) == [tag |-> tag, i1 |-> i1, i2 |-> i2, j1 |-> j1, j2 |-> j2]

\* if tag: answer.append((tag, i, ai, j, bj))
GapOps(i, ai, j, bj) ==
    IF GapTag(i, ai, j, bj) # ""
    THEN <<Opcode(GapTag(i, ai, j, bj), i, ai, j, bj)>> ELSE <<>>

\* EqualOps without the `if size:` test.
EqualOpsUnguarded(ai, bj, size) ==
    <<Opcode("equal", ai, ai + size, bj, bj + size)>>

\* if size: answer.append(('equal', ai, i, bj, j)), i and j past the block
EqualOps(ai, bj, size) ==
    IF size # 0 THEN <<Opcode("equal", ai, ai + size, bj, bj + size)>> ELSE <<>>

\* The loop of get_opcodes over the matching blocks; (i, j) is where the
\* previous block ended.
RECURSIVE OpcodeLoop(_, _, _, _)
OpcodeLoop(blocks, i, j, answer) ==
    IF blocks = <<>> THEN answer
    ELSE LET ai == Head(blocks)[1]
             bj == Head(blocks)[2]
             size == Head(blocks)[3]
         IN  OpcodeLoop(Tail(blocks), ai + size, bj + size,
                        answer \o GapOps(i, ai, j, bj) \o EqualOps(ai, bj, size))

\* get_opcodes(), given get_matching_blocks()
GetOpcodes(blocks) == OpcodeLoop(blocks, 0, 0, <<>>)

RECURSIVE SumSizes(_)
SumSizes(blocks) ==
    IF blocks = <<>> THEN 0 ELSE Head(blocks)[3] + SumSizes(Tail(blocks))

\* CalculateRatio returning 0.0 when length is 0.
CalculateRatioZeroEmpty(matches, length) ==
    IF length # 0 THEN [num |-> 2 * matches, den |-> length]
    ELSE [num |-> 0, den |-> 1]

\* CalculateRatio without the factor 2.0.
CalculateRatioHalf(matches, length) ==
    IF length # 0 THEN [num |-> matches, den |-> length]
    ELSE [num |-> 1, den |-> 1]

\* _calculate_ratio(matches, length) as the fraction num/den:
\* 2.0 * matches / length, and 1.0 when length is 0.
CalculateRatio(matches, length) ==
    IF length # 0 THEN [num |-> 2 * matches, den |-> length]
    ELSE [num |-> 1, den |-> 1]

\* Ratio as the share of the target that matched: matches / len(a).
RatioOfTargetMatched(m, blocks) == CalculateRatio(SumSizes(blocks), 2 * Len(m.a))

\* Ratio with len(a) passed as the length, len(b) forgotten.
RatioOverTargetLength(m, blocks) == CalculateRatio(SumSizes(blocks), Len(m.a))

\* ratio(), given get_matching_blocks()
Ratio(m, blocks) == CalculateRatio(SumSizes(blocks), Len(m.a) + Len(m.b))

\* round(x, 0) of the non-negative fraction n/d, ties to the even neighbour.
RoundHalfEven(n, d) ==
    LET q == n \div d
        r == n % d
    IN  IF 2 * r < d THEN q
        ELSE IF 2 * r > d THEN q + 1
        ELSE IF q % 2 = 0 THEN q ELSE q + 1

\* round(ratio * 100, 2), in hundredths of a point: 9474 is 94.74.
RoundedScore(ratio) == RoundHalfEven(ratio.num * 10000, ratio.den)

-----------------------------------------------------------------------------
(* The two services' handlers *)

NoRequest == [target |-> <<>>, spoken |-> <<>>]

Init ==
    /\ pc = "idle"
    /\ handler = "none"
    /\ request = NoRequest
    /\ a = <<>>
    /\ b = <<>>
    /\ windows = <<>>
    /\ matching_blocks = <<>>
    /\ opcodes = <<>>
    /\ score = 0
    /\ diffs = <<>>
    /\ differences = <<>>

\* DiffItem(op=tag, a=a[i1:i2], b=b[j1:j2]) for every opcode
DiffItems(x, y, ops) ==
    [n \in 1..Len(ops) |->
        [op |-> ops[n].tag,
         a |-> Slice(x, ops[n].i1, ops[n].i2),
         b |-> Slice(y, ops[n].j1, ops[n].j2)]]

\* IsDifference without the test `i1 != i2`.
IsDifferenceAnySpan(op) == op.tag # "equal"

\* if tag != 'equal' and i1 != i2
IsDifference(op) == op.tag # "equal" /\ op.i1 # op.i2

\* diffs.append({"start": i1, "end": i2}) for the opcodes that pass the test
RECURSIVE DifferenceSpans(_)
DifferenceSpans(ops) ==
    IF ops = <<>> THEN <<>>
    ELSE (IF IsDifference(Head(ops))
          THEN <<[start |-> Head(ops).i1, end |-> Head(ops).i2]>> ELSE <<>>)
         \o DifferenceSpans(Tail(ops))

\* The backend handler's response and what its matcher holds, given the
\* matcher sm, its get_matching_blocks() and its get_opcodes().
EvaluateResult(sm, blocks, ops) ==
    /\ a' = sm.a
    /\ b' = sm.b
    /\ windows' = SearchCalls(sm)
    /\ matching_blocks' = blocks
    /\ opcodes' = ops
    /\ score' = RoundedScore(Ratio(sm, blocks))
    /\ diffs' = DiffItems(sm.a, sm.b, ops)
    /\ differences' = <<>>

EvaluateWith(sm, blocks) == EvaluateResult(sm, blocks, GetOpcodes(blocks))

\* src/backend/main.py: POST /api/evaluate_pronunciation
\* a = req.target; b = req.spoken; sm = SequenceMatcher(None, a, b)
EvaluateRequest(sm) == EvaluateWith(sm, GetMatchingBlocks(sm))

Evaluate ==
    /\ pc = "idle"
    /\ \E req \in BackendRequests :
        /\ EvaluateRequest(Matcher(req.target, req.spoken))
        /\ request' = req
    /\ handler' = "evaluate"
    /\ pc' = "done"

\* The main handler's response and what its matcher holds.
PronunciationResult(matcher, blocks, ops) ==
    /\ a' = matcher.a
    /\ b' = matcher.b
    /\ windows' = SearchCalls(matcher)
    /\ matching_blocks' = blocks
    /\ opcodes' = ops
    /\ score' = RoundedScore(Ratio(matcher, blocks))
    /\ differences' = DifferenceSpans(ops)
    /\ diffs' = <<>>

PronunciationWith(matcher, blocks) ==
    PronunciationResult(matcher, blocks, GetOpcodes(blocks))

\* src/main.py: POST /api/evaluate_pronunciation
\* target and spoken are stripped and lower-cased;
\* matcher = SequenceMatcher(a=target, b=spoken)
PronunciationRequest(matcher) == PronunciationWith(matcher, GetMatchingBlocks(matcher))

EvaluatePronunciation ==
    /\ pc = "idle"
    /\ \E req \in MainRequests :
        /\ PronunciationRequest(Matcher(Normalize(req.target), Normalize(req.spoken)))
        /\ request' = req
    /\ handler' = "evaluate_pronunciation"
    /\ pc' = "done"

\* The response is returned; the matcher and everything it held are dropped.
Discard ==
    /\ pc = "done"
    /\ pc' = "idle"
    /\ handler' = "none"
    /\ request' = NoRequest
    /\ a' = <<>>
    /\ b' = <<>>
    /\ windows' = <<>>
    /\ matching_blocks' = <<>>
    /\ opcodes' = <<>>
    /\ score' = 0
    /\ diffs' = <<>>
    /\ differences' = <<>>

Next ==
    \/ Evaluate
    \/ EvaluatePronunciation
    \/ Discard

Spec == Init /\ [][Next]_vars

-----------------------------------------------------------------------------
(* Properties of a served request *)

Done == pc = "done"

\* ratio() of the matcher the handler built, from the blocks it holds.
RatioNow == Ratio(Matcher(a, b), matching_blocks)

\* ratio() of a fresh SequenceMatcher(None, x, y)
RatioOf(x, y) == Ratio(Matcher(x, y), GetMatchingBlocks(Matcher(x, y)))

\* Two fractions name the same number.
SameRatio(r1, r2) == r1.num * r2.den = r2.num * r1.den

IsPrefix(p, t) == Len(p) <= Len(t) /\ SubSeq(t, 1, Len(p)) = p

\* T, the total size of the matching blocks.
Matched == SumSizes(matching_blocks)

\* C1: the opcodes partition both texts: the first starts at (0,0), each starts
\* in both texts where the previous one ended, every op has i1 <= i2 and
\* j1 <= j2, and the last ends at (M,N); with no op at all both texts are empty.
C1_Partition ==
    Done =>
        /\ opcodes = <<>> => (Len(a) = 0 /\ Len(b) = 0)
        /\ opcodes # <<>> =>
            /\ opcodes[1].i1 = 0 /\ opcodes[1].j1 = 0
            /\ opcodes[Len(opcodes)].i2 = Len(a)
            /\ opcodes[Len(opcodes)].j2 = Len(b)
        /\ \A n \in 1..Len(opcodes) :
            opcodes[n].i1 <= opcodes[n].i2 /\ opcodes[n].j1 <= opcodes[n].j2
        /\ \A n \in 1..(Len(opcodes) - 1) :
            /\ opcodes[n + 1].i1 = opcodes[n].i2
            /\ opcodes[n + 1].j1 = opcodes[n].j2

\* A script of four ops that ends in a gap after the last block.
C1_Witness ==
    /\ Done
    /\ Len(opcodes) >= 4
    /\ opcodes[Len(opcodes)].tag # "equal"

C3_RatioSymmetric ==
    Done =>
        /\ SameRatio(RatioNow, RatioOf(b, a))
        /\ Matched = SumSizes(GetMatchingBlocks(Matcher(b, a)))

\* C3 amended: the ratio is the same with expected and actual swapped when one
\* text is a prefix of the other (equal texts and an empty text included).
C3_RatioSymmetricOnPrefix ==
    (Done /\ (IsPrefix(a, b) \/ IsPrefix(b, a))) =>
        /\ SameRatio(RatioNow, RatioOf(b, a))
        /\ Matched = SumSizes(GetMatchingBlocks(Matcher(b, a)))
        /\ score = RoundedScore(RatioOf(b, a))

\* A non-empty proper prefix scored against the longer text.
C3_Witness ==
    /\ Done
    /\ IsPrefix(a, b)
    /\ 0 < Len(a) /\ Len(a) < Len(b)
    /\ Matched = Len(a)

\* C4: no two consecutive opcodes carry the same tag.
C4_NoRepeatedTag ==
    Done => \A n \in 1..(Len(opcodes) - 1) : opcodes[n].tag # opcodes[n + 1].tag

\* Two matching blocks with one gap between them and one before them.
C4_Witness ==
    /\ Done
    /\ Len(matching_blocks) = 3
    /\ Len(opcodes) = 4
    /\ opcodes[2].tag = "equal" /\ opcodes[4].tag = "equal"

\* C5: 0 <= 2*T <= M + N, so the ratio is in [0,1] and the score, in
\* hundredths, in [0, 10000].
C5_ScoreInRange ==
    Done =>
        /\ 0 <= 2 * Matched
        /\ 2 * Matched <= Len(a) + Len(b)
        /\ 0 <= RatioNow.num /\ RatioNow.num <= RatioNow.den
        /\ 0 <= score /\ score <= 10000

\* A score strictly between the ends of the range.
C5_Witness ==
    /\ Done
    /\ 0 < Matched
    /\ 0 < score /\ score < 10000

\* C6 as stated: a text aligned with itself has ratio 1.0 and the single
\* opcode equal [0,len(s)) / [0,len(s)).
C6_IdentityOneEqual ==
    (Done /\ a = b) =>
        /\ SameRatio(RatioNow, [num |-> 1, den |-> 1])
        /\ opcodes = <<Opcode("equal", 0, Len(a), 0, Len(a))>>

\* C6 amended: a non-empty text aligned with itself has ratio 1.0, score
\* 100.00 and the single opcode equal [0,len(s)) / [0,len(s)); the empty text
\* aligned with itself has ratio 1.0 and no opcode.
C6_IdentityNonEmpty ==
    (Done /\ a = b) =>
        /\ SameRatio(RatioNow, [num |-> 1, den |-> 1])
        /\ score = 10000
        /\ a # <<>> => opcodes = <<Opcode("equal", 0, Len(a), 0, Len(a))>>
        /\ a = <<>> => opcodes = <<>>

\* A text of two units or more aligned with itself.
C6_Witness ==
    /\ Done
    /\ a = b
    /\ Len(a) >= 2

\* C7: with actual a non-empty proper prefix of expected, the one block found
\* is (0,0,N), the ratio is 2N/(M+N) and the opcodes are equal [0,N)/[0,N),
\* delete [N,M)/[N,N); "karma yoga" against "karma yog" scores 94.74.
C7_ProperPrefix ==
    (Done /\ b # <<>> /\ Len(b) < Len(a) /\ IsPrefix(b, a)) =>
        /\ windows = <<[window |-> Window(0, Len(a), 0, Len(b)),
                        match |-> <<0, 0, Len(b)>>]>>
        /\ matching_blocks = <<<<0, 0, Len(b)>>, <<Len(a), Len(b), 0>>>>
        /\ SameRatio(RatioNow, [num |-> 2 * Len(b), den |-> Len(a) + Len(b)])
        /\ opcodes = <<Opcode("equal", 0, Len(b), 0, Len(b)),
                       Opcode("delete", Len(b), Len(a), Len(b), Len(b))>>
        /\ (a = KarmaYoga /\ b = KarmaYog) =>
            /\ SameRatio(RatioNow, [num |-> 18, den |-> 19])
            /\ score = 9474
            /\ opcodes = <<Opcode("equal", 0, 9, 0, 9), Opcode("delete", 9, 10, 9, 9)>>

\* "karma yoga" against "karma yog", served by the backend.
C7_Witness ==
    /\ Done
    /\ handler = "evaluate"
    /\ a = KarmaYoga /\ b = KarmaYog
    /\ score = 9474

\* C8: every opcode's tag agrees with its spans and with the texts.
TagAgrees(op) ==
    /\ op.tag \in {"equal", "replace", "delete", "insert"}
    /\ op.tag = "equal" =>
        /\ op.i2 - op.i1 = op.j2 - op.j1
        /\ op.i2 - op.i1 > 0
        /\ Slice(a, op.i1, op.i2) = Slice(b, op.j1, op.j2)
    /\ op.tag = "replace" => (op.i1 < op.i2 /\ op.j1 < op.j2)
    /\ op.tag = "delete" => (op.i1 < op.i2 /\ op.j1 = op.j2)
    /\ op.tag = "insert" => (op.i1 = op.i2 /\ op.j1 < op.j2)
    /\ ~(op.i1 = op.i2 /\ op.j1 = op.j2)

C8_TagsAgree ==
    Done =>
        /\ \A n \in 1..Len(opcodes) : TagAgrees(opcodes[n])
        /\ handler = "evaluate" =>
            /\ Len(diffs) = Len(opcodes)
            /\ \A n \in 1..Len(diffs) :
                /\ diffs[n].op = opcodes[n].tag
                /\ diffs[n].op = "equal" => diffs[n].a = diffs[n].b
                /\ diffs[n].op = "delete" => diffs[n].b = <<>>
                /\ diffs[n].op = "insert" => diffs[n].a = <<>>

\* A script with a deletion, a replacement and a matching block.
C8_Witness ==
    /\ Done
    /\ handler = "evaluate"
    /\ \E n \in 1..Len(opcodes) : opcodes[n].tag = "delete"
    /\ \E n \in 1..Len(opcodes) : opcodes[n].tag = "replace"
    /\ \E n \in 1..Len(opcodes) : opcodes[n].tag = "equal"

\* expected[i:i+k] == actual[j:j+k]
CommonRun(i, j, k) == \A d \in 0..(k - 1) : At(a, i + d) = At(b, j + d)

\* The block x found in the window w is a common run inside w, no common run
\* inside w is longer, and no common run of its length inside w starts at a
\* lower i, or at the same i and a lower j.
LongestLeftmost(w, x) ==
    /\ w.alo <= x[1] /\ x[1] + x[3] <= w.ahi
    /\ w.blo <= x[2] /\ x[2] + x[3] <= w.bhi
    /\ CommonRun(x[1], x[2], x[3])
    /\ \A i \in w.alo..(w.ahi - x[3] - 1) :
        \A j \in w.blo..(w.bhi - x[3] - 1) : ~CommonRun(i, j, x[3] + 1)
    /\ \A i \in w.alo..(w.ahi - x[3]) :
        \A j \in w.blo..(w.bhi - x[3]) :
            CommonRun(i, j, x[3]) => (x[1] < i \/ (x[1] = i /\ x[2] <= j))

\* C9: in every window searched, the block found is a longest common run of
\* the window, the one with the lowest i and then the lowest j; size 0 only
\* when the window has no common unit.
C9_LongestLeftmost ==
    Done => \A n \in 1..Len(windows) : LongestLeftmost(windows[n].window, windows[n].match)

\* C9 where the matcher's purge of popular elements does not act:
\* len(actual) < 200.
C9_LongestLeftmostBelowAutoJunk ==
    (Done /\ Len(b) < AutoJunkMin) =>
        \A n \in 1..Len(windows) : LongestLeftmost(windows[n].window, windows[n].match)

IsReplaceOrDelete(op) == op.tag \in {"replace", "delete"}

\* The expected-spans of the replace and delete opcodes, in order.
ReplaceDeleteSpans ==
    LET kept == SelectSeq(opcodes, IsReplaceOrDelete)
    IN  [n \in 1..Len(kept) |-> [start |-> kept[n].i1, end |-> kept[n].i2]]

\* The differences list is the expected-spans of the replace and delete
\* opcodes: non-empty, inside the target, increasing and disjoint.
DifferencesAreSpans ==
    /\ differences = ReplaceDeleteSpans
    /\ \A n \in 1..Len(differences) :
        /\ 0 <= differences[n].start
        /\ differences[n].start < differences[n].end
        /\ differences[n].end <= Len(a)
    /\ \A n \in 1..(Len(differences) - 1) :
        differences[n].end <= differences[n + 1].start

\* t can be had from u by removing units of u: u only adds units to t.
RECURSIVE IsSubsequence(_, _)
IsSubsequence(t, u) ==
    IF t = <<>> THEN TRUE
    ELSE IF u = <<>> THEN FALSE
    ELSE IF Head(t) = Head(u) THEN IsSubsequence(Tail(t), Tail(u))
    ELSE IsSubsequence(t, Tail(u))

=============================================================================
